---- MODULE Spec2Model ----
(***************************************************************************)
(* State-machine model of grm/radialmenu.py: RadialMenuItem and RadialMenu *)
(* (item registration, slice redistribution, cursor resolution, the        *)
(* gesture timer and the release handler).                                 *)
(*                                                                         *)
(* Conventions                                                             *)
(*   - a point is <<x, y>>, a QRect is <<x, y, w, h>> (integers);          *)
(*   - Python None and an attribute that was never assigned are both the   *)
(*     empty tuple <<>> (None) for points, rectangles and slice lists, and *)
(*     the string "None" for an item's position and function;              *)
(*   - an item is referred to by its index in self.items, 0 meaning None;  *)
(*   - cursor displacements are kept in tenths of a pixel;                 *)
(*   - timeit.default_timer() is read on a time axis whose origin is the   *)
(*     last timer_start (the code only ever subtracts two readings taken   *)
(*     after the same timer_start), one timer interval passing per tick.   *)
(***************************************************************************)
EXTENDS Integers, Sequences, FiniteSets, TLC

VARIABLES
    items,                \* self.items: sequence of item records
    column_items,         \* self.column_widget.items: indices into items
    column_rects,         \* self.column_widget.rects
    column_widget_rect,   \* self.column_widget_rect (None until a column item exists)
    column_enabled,       \* self.column_widget.isEnabled()
    activeItem,           \* self.activeItem: index into items, 0 for None
    gesture,              \* self.gesture
    timerActive,          \* self.timer.isActive()
    visible,              \* self.isVisible()
    startPos,             \* self.startPos (None before the first popup)
    livePos,              \* self.livePos as the last handler's updateWidget read it, None
                          \* if that handler did not call updateWidget (it is never read
                          \* before updateWidget assigns it again)
    lastCursorPosition,   \* self.lastCursorPosition
    lastTime,             \* self.lastTime
    cursorChange,         \* self.cursorChange
    timeChange,           \* self.timeChange
    now,                  \* the clock read by timeit.default_timer()
    samplesSeen,          \* every displacement recorded since the last timer_start
    called,               \* the item functions invoked by the last handler, in order
    calledWhileTimer,     \* whether the timer was active when a function was invoked
    raised,               \* the exception the last handler let escape ("" for none)
    hung,                 \* a handler that never returned
    lastCall              \* the handler that ran last

vars == <<items, column_items, column_rects, column_widget_rect, column_enabled,
          activeItem, gesture, timerActive, visible, startPos, livePos,
          lastCursorPosition, lastTime, cursorChange, timeChange, now,
          samplesSeen, called, calledWhileTimer, raised, hung, lastCall>>

-----------------------------------------------------------------------------
(* Bounds of the model *)

\* most items registered in the interactive specification
MaxItems == 2
\* most polling ticks in one popup session
MaxTicks == 43
\* most maximal runs of equal displacement recorded in one session
MaxRuns == 2
\* most add_item calls in the registration specifications that allow
\* repeated positions or column items
MaxAdds == 4

-----------------------------------------------------------------------------
(* Program constants *)

None == <<>>
NoPos == "None"
NoFunction == "None"

\* get_screen_ratio() when no screen reports a dpi
ScreenRatio == 1
\* self.width, self.height of the menu widget
MenuWidth == 1000 * ScreenRatio
MenuHeight == 2000 * ScreenRatio
\* self.itemHeight
ItemHeight == 40 * ScreenRatio
\* item.column_padding
ColumnPadding == 60 * ScreenRatio
\* the dead zone of updateWidget: "if length > 20"
DeadZone == 20
\* track_cursor: samples
Samples == 40
\* track_cursor: cursor_speed_tolerance .02, in hundredths
SpeedTolerance == 2
\* self.timer.setInterval(2)
TimerInterval == 2
\* pie_max of pie_next / pie_last
PieMax == 15
\* the slice count tested by update_slice_membership's while loop
SliceCount == 16

Positions == {"N", "S", "E", "W", "NE", "NW", "SE", "SW"}

\* self.position_xy
position_xy(p) ==
    CASE p = "N"  -> <<0 * ScreenRatio, -100 * ScreenRatio>>
      [] p = "S"  -> <<0 * ScreenRatio, 100 * ScreenRatio>>
      [] p = "E"  -> <<120 * ScreenRatio, 0 * ScreenRatio>>
      [] p = "W"  -> <<-120 * ScreenRatio, 0 * ScreenRatio>>
      [] p = "NE" -> <<85 * ScreenRatio, -45 * ScreenRatio>>
      [] p = "NW" -> <<-85 * ScreenRatio, -45 * ScreenRatio>>
      [] p = "SE" -> <<85 * ScreenRatio, 45 * ScreenRatio>>
      [] p = "SW" -> <<-85 * ScreenRatio, 45 * ScreenRatio>>

\* self.slices
slices(p) ==
    CASE p = "E"  -> <<15, 0>>
      [] p = "SE" -> <<1, 2>>
      [] p = "S"  -> <<3, 4>>
      [] p = "SW" -> <<5, 6>>
      [] p = "W"  -> <<7, 8>>
      [] p = "NW" -> <<9, 10>>
      [] p = "N"  -> <<11, 12>>
      [] p = "NE" -> <<13, 14>>

-----------------------------------------------------------------------------
(* Helpers *)

Abs(a) == IF a < 0 THEN -a ELSE a

SeqToSet(s) == {s[i] : i \in 1..Len(s)}

\* Python's "x in list"
InList(x, s) == \E i \in 1..Len(s) : s[i] = x

RECURSIVE SumSeq(_)
SumSeq(s) == IF s = <<>> THEN 0 ELSE s[1] + SumSeq(Tail(s))

\* pie_next without the wrap from pie_max to 0
pie_next_NoWrap(value) == IF value = PieMax THEN PieMax ELSE value + 1

pie_next(value) == IF value = PieMax THEN 0 ELSE value + 1

pie_last(value) == IF value = 0 THEN PieMax ELSE value - 1

\* QRect.contains(QPoint)
RectContains(rect, pt) ==
    /\ rect # None
    /\ rect[1] <= pt[1] /\ pt[1] <= rect[1] + rect[3] - 1
    /\ rect[2] <= pt[2] /\ pt[2] <= rect[2] + rect[4] - 1

\* RadialMenuItem(position, text) followed by item.connect(function)
RadialMenuItem(position, textWidth, function) ==
    [position |-> position, textWidth |-> textWidth, function |-> function,
     slices |-> None, p_rect |-> None, hover |-> FALSE]

\* "if item.position": a position string is true, None is false
IsRadial(item) == item.position # NoPos

-----------------------------------------------------------------------------
(* update_slice_membership *)

\* lines 399-404: the first loop, over self.items[i..]. A column item makes
\* self.slices[position] raise KeyError; the items before it keep the copy
\* of their default slices they were just given.
RECURSIVE DefaultSlices(_, _, _)
DefaultSlices(its, used, i) ==
    IF i > Len(its) THEN [items |-> its, used |-> used, raised |-> ""]
    ELSE IF its[i].position \notin Positions
         THEN [items |-> its, used |-> used, raised |-> "KeyError"]
         ELSE DefaultSlices([its EXCEPT ![i].slices = slices(its[i].position)],
                            used \o slices(its[i].position), i + 1)

\* the inner loop's body with "elif" for its second test
GrowItem_Elif(item, used) ==
    LET n == pie_last(item.slices[1])
        l == pie_next(item.slices[Len(item.slices)])
    IN  IF ~InList(n, used)
        THEN [item |-> [item EXCEPT !.slices = Append(item.slices, n)],
              used |-> Append(used, n)]
        ELSE IF ~InList(l, used)
        THEN [item |-> [item EXCEPT !.slices = Append(item.slices, l)],
              used |-> Append(used, l)]
        ELSE [item |-> item, used |-> used]

\* lines 409-417: the body of the inner loop for one item
GrowItem(item, used) ==
    LET n == pie_last(item.slices[1])
        l == pie_next(item.slices[Len(item.slices)])
        s1 == IF InList(n, used) THEN item.slices ELSE Append(item.slices, n)
        u1 == IF InList(n, used) THEN used ELSE Append(used, n)
        s2 == IF InList(l, u1) THEN s1 ELSE Append(s1, l)
        u2 == IF InList(l, u1) THEN u1 ELSE Append(u1, l)
    IN  [item |-> [item EXCEPT !.slices = s2], used |-> u2]

\* one pass that leaves the loop after its first item
GrowPass_FirstItemOnly(its, used, i) ==
    IF i > Len(its) THEN [items |-> its, used |-> used]
    ELSE LET n == pie_last(its[i].slices[1])
             l == pie_next(its[i].slices[Len(its[i].slices)])
             s1 == IF InList(n, used) THEN its[i].slices ELSE Append(its[i].slices, n)
             u1 == IF InList(n, used) THEN used ELSE Append(used, n)
             s2 == IF InList(l, u1) THEN s1 ELSE Append(s1, l)
             u2 == IF InList(l, u1) THEN u1 ELSE Append(u1, l)
         IN  [items |-> [its EXCEPT ![i].slices = s2], used |-> u2]

\* lines 407-417: one pass of "for item in self.items", from item i on
RECURSIVE GrowPass(_, _, _)
GrowPass(its, used, i) ==
    IF i > Len(its) THEN [items |-> its, used |-> used]
    ELSE LET g == GrowItem(its[i], used)
         IN  GrowPass([its EXCEPT ![i] = g.item], g.used, i + 1)

\* the redistribution with "if" for "while": a single pass
GrowLoop_SinglePass(its, used) ==
    IF Len(used) >= SliceCount
    THEN [items |-> its, raised |-> "", hung |-> FALSE]
    ELSE [items |-> GrowPass(its, used, 1).items, raised |-> "", hung |-> FALSE]

\* lines 406-417: the while loop. A pass that records nothing leaves the
\* loop's state as it was, so the loop never ends: hung.
RECURSIVE GrowLoop(_, _)
GrowLoop(its, used) ==
    IF Len(used) >= SliceCount
    THEN [items |-> its, raised |-> "", hung |-> FALSE]
    ELSE LET g == GrowPass(its, used, 1)
         IN  IF g.used = used
             THEN [items |-> its, raised |-> "", hung |-> TRUE]
             ELSE GrowLoop(g.items, g.used)

update_slice_membership(its) ==
    LET d == DefaultSlices(its, <<>>, 1)
    IN  IF d.raised # ""
        THEN [items |-> d.items, raised |-> d.raised, hung |-> FALSE]
        ELSE GrowLoop(d.items, d.used)

-----------------------------------------------------------------------------
(* add_item *)

\* get_text_dimensions(item)[0]: the text width is an attribute of the item
get_text_dimensions(item) == item.textWidth

\* 'W' in position, 'E' in position
HasW(p) == p \in {"W", "NW", "SW"}
HasE(p) == p \in {"E", "NE", "SE"}

\* lines 271-307: the rectangle of a radial item. Halves are kept exact by
\* computing twice the coordinate; QRect takes the integer part.
RadialRect(item) ==
    LET position == item.position
        width == get_text_dimensions(item) + 110 * ScreenRatio
        height == ItemHeight
        xy == position_xy(position)
        x2 == 2 * xy[1]
              - (IF HasW(position) THEN 2 * width ELSE 0)
              - (IF position \in {"N", "S"} THEN width ELSE 0)
              + MenuWidth
        y2 == 2 * xy[2]
              - (IF HasW(position) THEN height ELSE 0)
              - (IF HasE(position) THEN height ELSE 0)
              - (IF position = "N" THEN 2 * height ELSE 0)
              - (IF position \in {"NE", "NW"} THEN 2 * 20 * ScreenRatio ELSE 0)
              + (IF position \in {"SE", "SW"} THEN 2 * 20 * ScreenRatio ELSE 0)
              + MenuHeight
    IN  <<x2 \div 2, y2 \div 2, width, height>>

\* lines 268-311
add_radial_item(its, k) ==
    LET u == update_slice_membership(its)
    IN  IF u.raised # "" \/ u.hung
        THEN u
        ELSE [items |-> [u.items EXCEPT ![k].p_rect = RadialRect(its[k])],
              raised |-> "", hung |-> FALSE]

\* lines 313-368: returns the item's rectangle and the column's rectangle
add_column_item(its, k) ==
    LET column == {i \in 1..Len(its) : ~IsRadial(its[i])}
        widthOf(i) == get_text_dimensions(its[i]) + ColumnPadding * 2
        greatest_width ==
            IF column = {} THEN 0
            ELSE CHOOSE w \in {widthOf(i) : i \in column} :
                     \A i \in column : widthOf(i) <= w
        h == ItemHeight
        num_items == Cardinality(column)
        colH == ((h * num_items) - ((num_items - 1) * 2)) + 3
        colX == (MenuWidth - greatest_width) \div 2
        colY == (MenuHeight \div 2) + 170 * ScreenRatio
    IN  [p_rect |-> <<0, (num_items - 1) * (h - 1), greatest_width, h>>,
         column_widget_rect |-> <<colX, colY, greatest_width, colH>>]

\* lines 257-266: the whole of add_item for a new item
add_item(item) ==
    LET its == Append(items, item)
        k == Len(its)
    IN  /\ ~hung
        /\ IF IsRadial(item)
           THEN LET r == add_radial_item(its, k)
                IN  /\ items' = r.items
                    /\ raised' = r.raised
                    /\ hung' = r.hung
                    /\ UNCHANGED <<column_items, column_rects, column_widget_rect>>
           ELSE LET c == add_column_item(its, k)
                IN  /\ items' = [its EXCEPT ![k].p_rect = c.p_rect]
                    /\ column_rects' = Append(column_rects, c.p_rect)
                    /\ column_items' = Append(column_items, k)
                    /\ column_widget_rect' = c.column_widget_rect
                    /\ raised' = ""
                    /\ hung' = FALSE
        /\ lastCall' = "add_item"
        /\ called' = <<>>
        /\ calledWhileTimer' = FALSE
        /\ livePos' = None
        /\ UNCHANGED <<column_enabled, activeItem, gesture, timerActive, visible,
                       startPos, lastCursorPosition, lastTime,
                       cursorChange, timeChange, now, samplesSeen>>

-----------------------------------------------------------------------------
(* RadialMenu.__init__ *)

Init ==
    /\ items = <<>>
    /\ column_items = <<>>
    /\ column_rects = <<>>
    /\ column_widget_rect = None
    /\ column_enabled = TRUE
    /\ activeItem = 0
    /\ gesture = TRUE
    /\ timerActive = FALSE
    /\ visible = FALSE
    /\ startPos = None
    /\ livePos = None
    /\ lastCursorPosition = None
    /\ lastTime = None
    /\ cursorChange = <<>>
    /\ timeChange = <<>>
    /\ now = 0
    /\ samplesSeen = <<>>
    /\ called = <<>>
    /\ calledWhileTimer = FALSE
    /\ raised = ""
    /\ hung = FALSE
    /\ lastCall = "__init__"

-----------------------------------------------------------------------------
(* updateWidget *)

\* the dead-zone test with ">=" for ">"
OutsideDeadZone_Inclusive(a, b) ==
    (a[1] - b[1]) * (a[1] - b[1]) + (a[2] - b[2]) * (a[2] - b[2])
        >= DeadZone * DeadZone

\* math.hypot(dx, dy) > 20, on integers
OutsideDeadZone(a, b) ==
    (a[1] - b[1]) * (a[1] - b[1]) + (a[2] - b[2]) * (a[2] - b[2])
        > DeadZone * DeadZone

\* the angle of (ax, ay), ax >= 0, ay >= 0, is below 22.5 degrees:
\* ay < (sqrt(2) - 1) * ax
Below22(ax, ay) == (ax + ay) * (ax + ay) < 2 * ax * ax

\* the angle of (ax, ay), ax >= 0, ay >= 0, is below 67.5 degrees:
\* ay < (sqrt(2) + 1) * ax
Below67(ax, ay) == ay <= ax \/ (ay - ax) * (ay - ax) < 2 * ax * ax

\* the slice without "degrees += 360.0" for a negative angle: int() rounds
\* towards zero, so the slice of an angle above the x axis is the negated
\* slice of its mirror image
rad_slice_NoNormalise(p1, p2) ==
    LET dx == p2[1] - p1[1]
        dy == p2[2] - p1[2]
        ax == Abs(dx)
        ay == Abs(dy)
        up == IF Below22(ax, ay) THEN 0
              ELSE IF ay < ax THEN 1
              ELSE IF Below67(ax, ay) THEN 2
              ELSE 3
        down == IF Below22(ax, ay) THEN 0
                ELSE IF ay <= ax THEN 1
                ELSE IF Below67(ax, ay) THEN 2
                ELSE 3
    IN  IF dx = 0 /\ dy = 0 THEN 0
        ELSE IF dx > 0 /\ dy >= 0 THEN up
        ELSE IF dx <= 0 /\ dy > 0 THEN 7 - down
        ELSE IF dx < 0 /\ dy = 0 THEN 8
        ELSE IF dx < 0 THEN 0 - (7 - down)
        ELSE 0 - up

\* angleFromPoints(p1, p2) followed by int(angle / 22.5), lines 482-486 and
\* 564-573. The angle runs from the +x axis towards +y (down the screen);
\* a quadrant's angle is cut at 22.5, 45 and 67.5 degrees, and the quadrants
\* where the angle is measured back from 180 or 360 take 45 from below.
rad_slice(p1, p2) ==
    LET dx == p2[1] - p1[1]
        dy == p2[2] - p1[2]
        ax == Abs(dx)
        ay == Abs(dy)
        up == IF Below22(ax, ay) THEN 0
              ELSE IF ay < ax THEN 1
              ELSE IF Below67(ax, ay) THEN 2
              ELSE 3
        down == IF Below22(ax, ay) THEN 0
                ELSE IF ay <= ax THEN 1
                ELSE IF Below67(ax, ay) THEN 2
                ELSE 3
    IN  IF dx = 0 /\ dy = 0 THEN 0
        ELSE IF dx > 0 /\ dy >= 0 THEN up
        ELSE IF dx <= 0 /\ dy > 0 THEN 7 - down
        ELSE IF dx < 0 /\ dy <= 0 THEN 8 + up
        ELSE 15 - down

\* the menu's top left corner on the screen, set by popup (lines 577-580)
MenuTopLeft(start) ==
    <<(start[1] + MenuWidth \div 2) - MenuWidth,
      (start[2] + MenuHeight \div 2) - MenuHeight>>

\* self.mapFromParent(pos)
mapFromParent(start, pos) ==
    <<pos[1] - MenuTopLeft(start)[1], pos[2] - MenuTopLeft(start)[2]>>

\* self.column_widget.mapFromGlobal(pos)
mapFromGlobalColumn(start, colRect, pos) ==
    <<mapFromParent(start, pos)[1] - colRect[1],
      mapFromParent(start, pos)[2] - colRect[2]>>

\* sendEvent(item, leaveButtonEvent) / sendEvent(item, enterButtonEvent)
SendLeave(its, i) == [its EXCEPT ![i].hover = FALSE]
SendEnter(its, i) == [its EXCEPT ![i].hover = TRUE]

\* the column loop without its "break": the last rectangle containing the
\* cursor wins
RECURSIVE ColumnScan_NoBreak(_, _, _, _)
ColumnScan_NoBreak(rects, colItems, pt, i) ==
    IF i > Len(rects) THEN 0
    ELSE LET later == ColumnScan_NoBreak(rects, colItems, pt, i + 1)
         IN  IF later # 0 THEN later
             ELSE IF RectContains(rects[i], pt) THEN colItems[i]
             ELSE 0

\* lines 508-512: the first column rectangle containing the cursor, from i on
RECURSIVE ColumnScan(_, _, _, _)
ColumnScan(rects, colItems, pt, i) ==
    IF i > Len(rects) THEN 0
    ELSE IF RectContains(rects[i], pt) THEN colItems[i]
    ELSE ColumnScan(rects, colItems, pt, i + 1)

\* the loop over self.items with a "break" after the slice match as well
RECURSIVE RadialScan_SliceBreaks(_, _, _, _, _)
RadialScan_SliceBreaks(its, active, pt, slice, i) ==
    IF i > Len(its) THEN [items |-> its, activeItem |-> active, raised |-> ""]
    ELSE IF ~IsRadial(its[i]) THEN RadialScan_SliceBreaks(its, active, pt, slice, i + 1)
    ELSE IF its[i].p_rect = None
         THEN [items |-> its, activeItem |-> active, raised |-> "AttributeError"]
    ELSE IF RectContains(its[i].p_rect, pt) \/ InList(slice, its[i].slices)
         THEN [items |-> SendLeave(its, i), activeItem |-> i, raised |-> ""]
    ELSE RadialScan_SliceBreaks(SendLeave(its, i), active, pt, slice, i + 1)

\* lines 515-528: the loop over self.items from item i on. An item that was
\* never given p_rect makes "item.p_rect" raise AttributeError.
RECURSIVE RadialScan(_, _, _, _, _)
RadialScan(its, active, pt, slice, i) ==
    IF i > Len(its) THEN [items |-> its, activeItem |-> active, raised |-> ""]
    ELSE IF ~IsRadial(its[i]) THEN RadialScan(its, active, pt, slice, i + 1)
    ELSE IF its[i].p_rect = None
         THEN [items |-> its, activeItem |-> active, raised |-> "AttributeError"]
    ELSE IF RectContains(its[i].p_rect, pt)
         THEN [items |-> SendLeave(its, i), activeItem |-> i, raised |-> ""]
    ELSE RadialScan(SendLeave(its, i),
                    IF InList(slice, its[i].slices) THEN i ELSE active,
                    pt, slice, i + 1)

\* the column test without "not self.gesture"
UseColumn_IgnoresGesture(g, colRect) == colRect # None

\* lines 497 and 505: "not self.gesture and self.column_widget_rect"
UseColumn(g, colRect) == ~g /\ colRect # None

\* lines 476-532, with self.gesture = g and QCursor.pos() = live
updateWidget(g, live) ==
    LET slice == rad_slice(startPos, live)
        its0 == IF activeItem # 0 THEN SendLeave(items, activeItem) ELSE items
        useColumn == UseColumn(g, column_widget_rect)
        pt0 == mapFromParent(startPos, live)
        inColumn == useColumn /\ RectContains(column_widget_rect, pt0)
        pt == IF inColumn
              THEN mapFromGlobalColumn(startPos, column_widget_rect, live)
              ELSE pt0
        colActive == IF inColumn THEN ColumnScan(column_rects, column_items, pt, 1)
                     ELSE 0
        r == IF ~OutsideDeadZone(startPos, live)
             THEN [items |-> its0, activeItem |-> 0, raised |-> ""]
             ELSE IF colActive # 0
             THEN [items |-> its0, activeItem |-> colActive, raised |-> ""]
             ELSE RadialScan(its0, 0, pt, slice, 1)
    IN  [items |-> IF r.raised = "" /\ r.activeItem # 0
                   THEN SendEnter(r.items, r.activeItem) ELSE r.items,
         activeItem |-> r.activeItem,
         column_enabled |-> IF useColumn THEN TRUE ELSE column_enabled,
         raised |-> r.raised]

\* lines 472-474
mouseMoveEvent(live) ==
    /\ ~hung /\ visible
    /\ LET u == updateWidget(gesture, live)
       IN  /\ items' = u.items
           /\ activeItem' = u.activeItem
           /\ column_enabled' = u.column_enabled
           /\ raised' = u.raised
    /\ livePos' = live
    /\ lastCall' = "mouseMoveEvent"
    /\ called' = <<>>
    /\ calledWhileTimer' = FALSE
    /\ UNCHANGED <<column_items, column_rects, column_widget_rect, gesture,
                   timerActive, visible, startPos, lastCursorPosition, lastTime,
                   cursorChange, timeChange, now, samplesSeen, hung>>

-----------------------------------------------------------------------------
(* popup, timer_start, mouseReleaseEvent, hide *)

\* timer_start without "self.cursorChange = list()"
timer_start_KeepsSamples ==
    [gesture |-> TRUE, lastCursorPosition |-> None, lastTime |-> None,
     cursorChange |-> cursorChange, timeChange |-> <<>>, timerActive |-> TRUE]

\* lines 553-562: the attributes timer_start assigns
timer_start ==
    [gesture |-> TRUE, lastCursorPosition |-> None, lastTime |-> None,
     cursorChange |-> <<>>, timeChange |-> <<>>, timerActive |-> TRUE]

\* lines 575-589
popup(pos) ==
    /\ ~hung
    /\ startPos' = pos
    /\ visible' = TRUE
    /\ gesture' = timer_start.gesture
    /\ lastCursorPosition' = timer_start.lastCursorPosition
    /\ lastTime' = timer_start.lastTime
    /\ cursorChange' = timer_start.cursorChange
    /\ timeChange' = timer_start.timeChange
    /\ timerActive' = timer_start.timerActive
    /\ now' = 0
    /\ samplesSeen' = <<>>
    /\ raised' = ""
    /\ lastCall' = "popup"
    /\ called' = <<>>
    /\ calledWhileTimer' = FALSE
    /\ livePos' = None
    /\ UNCHANGED <<items, column_items, column_rects, column_widget_rect,
                   column_enabled, activeItem, hung>>

\* the call without the try/except around it
RunFunction_Propagates(its, active) ==
    IF active # 0 /\ its[active].function # NoFunction
    THEN [called |-> <<active>>,
          raised |-> IF its[active].function = "raises" THEN "Exception" ELSE ""]
    ELSE [called |-> <<>>, raised |-> ""]

\* the call made for every item that has a function
RunFunction_EveryItem(its, active) ==
    [called |-> IF active = 0 THEN <<>>
                ELSE SelectSeq([i \in 1..Len(its) |-> i],
                               LAMBDA i : its[i].function # NoFunction),
     raised |-> ""]

\* lines 541-546: the functions run for the active item; a function that
\* raises is caught by the bare except, so nothing escapes
RunFunction(its, active) ==
    IF active # 0 /\ its[active].function # NoFunction
    THEN [called |-> <<active>>, raised |-> ""]
    ELSE [called |-> <<>>, raised |-> ""]

\* lines 534-551
mouseReleaseEvent ==
    /\ ~hung /\ visible
    /\ items' = [i \in 1..Len(items) |-> [items[i] EXCEPT !.hover = FALSE]]
    /\ visible' = FALSE
    /\ LET f == RunFunction(items, activeItem)
       IN  /\ called' = f.called
           /\ raised' = f.raised
           /\ calledWhileTimer' = (f.called # <<>> /\ timerActive)
           /\ activeItem' = IF f.raised = "" THEN 0 ELSE activeItem
           /\ column_enabled' = IF f.raised = "" THEN FALSE ELSE column_enabled
           /\ timerActive' = IF f.raised = "" THEN FALSE ELSE timerActive
    /\ lastCall' = "mouseReleaseEvent"
    /\ livePos' = None
    /\ UNCHANGED <<column_items, column_rects, column_widget_rect, gesture,
                   startPos, lastCursorPosition, lastTime,
                   cursorChange, timeChange, now, samplesSeen, hung>>

\* QMenu hidden by the toolkit (Escape, a click elsewhere): RadialMenu
\* overrides neither hideEvent nor closeEvent, so nothing else changes
hide ==
    /\ ~hung /\ visible
    /\ visible' = FALSE
    /\ raised' = ""
    /\ lastCall' = "hide"
    /\ called' = <<>>
    /\ calledWhileTimer' = FALSE
    /\ livePos' = None
    /\ UNCHANGED <<items, column_items, column_rects, column_widget_rect,
                   column_enabled, activeItem, gesture, timerActive, startPos,
                   lastCursorPosition, lastTime, cursorChange,
                   timeChange, now, samplesSeen, hung>>

-----------------------------------------------------------------------------
(* track_cursor *)

\* the integer part of the square root of v, by bisection on lo..hi
RECURSIVE IsqrtIn(_, _, _)
IsqrtIn(v, lo, hi) ==
    IF lo >= hi THEN lo
    ELSE LET mid == (lo + hi + 1) \div 2
         IN  IF mid * mid <= v THEN IsqrtIn(v, mid, hi) ELSE IsqrtIn(v, lo, mid - 1)

\* math.hypot(a.x - b.x, a.y - b.y), in tenths of a pixel
Hypot10(a, b) ==
    LET dx == Abs(a[1] - b[1])
        dy == Abs(a[2] - b[2])
    IN  IsqrtIn(100 * (dx * dx + dy * dy), 0, 10 * (dx + dy))

\* truth value of a QPoint attribute: None and the null point (0, 0) are false
PointIsTrue(p) == p # None /\ p # <<0, 0>>

\* the window without the loop that shifts it: once full, only its last
\* entry is overwritten
PushSample_NoShift(buffer, value) ==
    IF Len(buffer) < Samples
    THEN Append(buffer, value)
    ELSE [buffer EXCEPT ![Samples] = value]

\* lines 631-639: the window of the last `samples` values
PushSample(buffer, value) ==
    IF Len(buffer) < Samples
    THEN Append(buffer, value)
    ELSE [i \in 1..Len(buffer) |->
             IF i <= Samples - 1 THEN buffer[i + 1]
             ELSE IF i = Samples THEN value
             ELSE buffer[i]]

\* lines 671-673 and 647: mean(numbers) < cursor_speed_tolerance, that is
\* sum / max(len, 1) < .02, the numbers being tenths of a pixel. (A
\* displacement between integer points is 0 or at least 1 px, so rounding
\* the numbers down to tenths does not change the test.)
MeanBelowTolerance(numbers) ==
    SumSeq(numbers) * 100
        < SpeedTolerance * 10 * (IF Len(numbers) > 1 THEN Len(numbers) ELSE 1)

\* the test that ends gesture mode without the test of the buffer's length
Settles_NoLengthTest(buffer) == MeanBelowTolerance(buffer)

\* lines 646-647: the test that ends gesture mode
Settles(buffer) == Len(buffer) > Samples - 1 /\ MeanBelowTolerance(buffer)

\* whether a tick reading pos ends gesture mode (lines 627-648)
WillSettle(pos) ==
    /\ PointIsTrue(lastCursorPosition) /\ gesture
    /\ Settles(PushSample(cursorChange, Hypot10(lastCursorPosition, pos)))

\* the tick with updateWidget called at its end whether or not gesture mode
\* ended
track_cursor_AlwaysUpdates(pos, live) ==
    LET current_time == now + TimerInterval
        sampling == PointIsTrue(lastCursorPosition) /\ gesture
        change == Hypot10(lastCursorPosition, pos)
        newChange == PushSample(cursorChange, change)
        newTime == PushSample(timeChange, current_time - lastTime)
        settle == sampling /\ Settles(newChange)
        u == updateWidget(IF settle THEN FALSE ELSE gesture, live)
    IN  /\ ~hung /\ timerActive
        /\ now < MaxTicks * TimerInterval
        /\ now' = current_time
        /\ cursorChange' = IF sampling THEN newChange ELSE cursorChange
        /\ timeChange' = IF sampling THEN newTime ELSE timeChange
        /\ samplesSeen' = IF sampling THEN Append(samplesSeen, change) ELSE samplesSeen
        /\ gesture' = IF settle THEN FALSE ELSE gesture
        /\ items' = u.items
        /\ activeItem' = u.activeItem
        /\ column_enabled' = u.column_enabled
        /\ livePos' = live
        /\ raised' = u.raised
        /\ timerActive' = IF settle /\ u.raised = "" THEN FALSE ELSE timerActive
        /\ lastCursorPosition' = IF u.raised # "" THEN lastCursorPosition ELSE pos
        /\ lastTime' = IF u.raised # "" THEN lastTime ELSE current_time
        /\ lastCall' = IF settle THEN "track_cursor:updateWidget" ELSE "track_cursor"
        /\ called' = <<>>
        /\ calledWhileTimer' = FALSE
        /\ UNCHANGED <<column_items, column_rects, column_widget_rect, visible,
                       startPos, hung>>

\* lines 613-653; pos is QCursor.pos() at line 620, live the one updateWidget
\* reads if it is called
track_cursor(pos, live) ==
    LET current_time == now + TimerInterval
        sampling == PointIsTrue(lastCursorPosition) /\ gesture
        change == Hypot10(lastCursorPosition, pos)
        newChange == PushSample(cursorChange, change)
        newTime == PushSample(timeChange, current_time - lastTime)
        settle == sampling /\ Settles(newChange)
        u == updateWidget(FALSE, live)
        escaped == settle /\ u.raised # ""
    IN  /\ ~hung /\ timerActive
        /\ now < MaxTicks * TimerInterval
        /\ now' = current_time
        /\ cursorChange' = IF sampling THEN newChange ELSE cursorChange
        /\ timeChange' = IF sampling THEN newTime ELSE timeChange
        /\ samplesSeen' = IF sampling THEN Append(samplesSeen, change) ELSE samplesSeen
        /\ gesture' = IF settle THEN FALSE ELSE gesture
        /\ items' = IF settle THEN u.items ELSE items
        /\ activeItem' = IF settle THEN u.activeItem ELSE activeItem
        /\ column_enabled' = IF settle THEN u.column_enabled ELSE column_enabled
        /\ livePos' = IF settle THEN live ELSE None
        /\ raised' = IF settle THEN u.raised ELSE ""
        /\ timerActive' = IF settle /\ ~escaped THEN FALSE ELSE timerActive
        /\ lastCursorPosition' = IF escaped THEN lastCursorPosition ELSE pos
        /\ lastTime' = IF escaped THEN lastTime ELSE current_time
        /\ lastCall' = IF settle THEN "track_cursor:updateWidget" ELSE "track_cursor"
        /\ called' = <<>>
        /\ calledWhileTimer' = FALSE
        /\ UNCHANGED <<column_items, column_rects, column_widget_rect, visible,
                       startPos, hung>>

-----------------------------------------------------------------------------
(* The environment *)

\* when the user acts in the specifications below: before the
\* first tick of a session, or once gesture mode has ended or the timer has
\* stopped (the 41 ticks that end gesture mode take 82 ms)
UserMayAct == ~(timerActive /\ gesture /\ now > 0)

-----------------------------------------------------------------------------
(* Registration of radial items at pairwise distinct positions *)

PositionsOf(its) == {its[i].position : i \in 1..Len(its)}

AddDistinctRadial ==
    \E p \in Positions \ PositionsOf(items) :
        add_item(RadialMenuItem(p, 10, NoFunction))

NextDistinct == AddDistinctRadial

SpecDistinct == Init /\ [][NextDistinct]_vars

-----------------------------------------------------------------------------
(* Claims about the slice assignment *)

AllSlices == 0..(SliceCount - 1)

SliceSet(item) == SeqToSet(item.slices)

\* the items are all radial, at pairwise distinct positions
DistinctRadial ==
    /\ items # <<>>
    /\ \A i \in 1..Len(items) : IsRadial(items[i])
    /\ \A i, j \in 1..Len(items) : i # j => items[i].position # items[j].position

Owners(s) == {i \in 1..Len(items) : InList(s, items[i].slices)}

\* a set of slices that is one arc of the pie
Contiguous(S) ==
    \E a \in AllSlices :
        S = {(a + j) % SliceCount : j \in 0..(Cardinality(S) - 1)}

\* C1: after each add_item of a sequence registering radial items at pairwise
\* distinct positions, add_item has returned normally and every slice 0..15
\* belongs to exactly one item, no item listing a slice twice.
C1_SlicesPartition ==
    (lastCall = "add_item" /\ DistinctRadial) =>
        /\ ~hung /\ raised = ""
        /\ \A s \in AllSlices : Cardinality(Owners(s)) = 1
        /\ \A i \in 1..Len(items) :
               Cardinality(SliceSet(items[i])) = Len(items[i].slices)

\* C1 witness: five distinct positions registered, slices redistributed
C1_Witness ==
    /\ lastCall = "add_item" /\ DistinctRadial /\ Len(items) = 5
    /\ \E i \in 1..Len(items) : Len(items[i].slices) > 3
    /\ \A s \in AllSlices : Cardinality(Owners(s)) = 1

\* C9: when exactly one radial item is registered, whatever its position, it
\* owns all 16 slices.
C9_SingleItemOwnsAll ==
    (Len(items) = 1 /\ IsRadial(items[1])) =>
        /\ ~hung /\ raised = ""
        /\ SliceSet(items[1]) = AllSlices

\* C9 witness: the only item is at E, whose default pair wraps from 15 to 0
C9_Witness ==
    /\ Len(items) = 1 /\ items[1].position = "E"
    /\ SliceSet(items[1]) = AllSlices

Opposite(p) ==
    CASE p = "N" -> "S" [] p = "S" -> "N" [] p = "E" -> "W" [] p = "W" -> "E"
      [] p = "NE" -> "SW" [] p = "SW" -> "NE" [] p = "NW" -> "SE" [] p = "SE" -> "NW"

\* C10: when exactly two radial items are registered, at opposite positions,
\* in either order, each owns exactly 8 slices and these form one arc.
C10_OppositeHalves ==
    (Len(items) = 2 /\ IsRadial(items[1]) /\ IsRadial(items[2])
        /\ items[2].position = Opposite(items[1].position)) =>
        \A i \in 1..2 :
            /\ Len(items[i].slices) = 8
            /\ Cardinality(SliceSet(items[i])) = 8
            /\ Contiguous(SliceSet(items[i]))

\* C10 witness: W registered before E, E's arc wrapping through slice 0
C10_Witness ==
    /\ Len(items) = 2 /\ items[1].position = "W" /\ items[2].position = "E"
    /\ Cardinality(SliceSet(items[2])) = 8
    /\ {15, 0} \subseteq SliceSet(items[2])

-----------------------------------------------------------------------------
(* The interactive specification: registration, popup, cursor, release *)

\* where popup is asked to open
Origin == <<1500, 1200>>

At(dx, dy) == <<Origin[1] + dx, Origin[2] + dy>>

\* the cursor positions the handlers read, as offsets from Origin:
\* the origin, the rim of the dead zone (distance exactly 20), a point just
\* outside it, points in the rectangles of N and NE items, a point in no
\* rectangle, and points in and around the column ((0, 209) lying on the row
\* shared by the rectangles of the first and second column items)
CursorPoints ==
    {At(0, 0), At(12, 16), At(0, -21), At(0, -120), At(150, -105),
     At(100, -60), At(-100, -36), At(0, 180), At(0, 211), At(100, 180),
     At(0, 209)}

\* the positions registered
SpecPositions == {"N", "NE", NoPos}

\* the items registered: narrow items have no function, wide radial items a
\* function that returns and wide column items one that raises
SpecItems ==
    {RadialMenuItem(p, 10, NoFunction) : p \in SpecPositions}
        \cup {RadialMenuItem(p, 200, IF p = NoPos THEN "raises" ELSE "ok") :
                 p \in SpecPositions}

AddItem ==
    /\ UserMayAct
    /\ Len(items) < MaxItems
    /\ \E item \in SpecItems : add_item(item)

Popup == UserMayAct /\ popup(Origin)

MouseMove == UserMayAct /\ \E live \in CursorPoints : mouseMoveEvent(live)

\* a tick with the cursor at rest at the origin; the position updateWidget
\* reads matters only on the tick that ends gesture mode
Tick ==
    \E live \in (IF WillSettle(Origin) THEN CursorPoints ELSE {Origin}) :
        track_cursor(Origin, live)

Release == UserMayAct /\ mouseReleaseEvent

Hide == UserMayAct /\ hide

Next == AddItem \/ Popup \/ MouseMove \/ Tick \/ Release \/ Hide

Spec == Init /\ [][Next]_vars

-----------------------------------------------------------------------------
(* Claims about updateWidget and mouseReleaseEvent *)

\* the last handler called updateWidget
Updated == lastCall \in {"mouseMoveEvent", "track_cursor:updateWidget"}

\* the cursor updateWidget read is at most 20 px from the session origin
Within20 ==
    LET dx == livePos[1] - startPos[1]
        dy == livePos[2] - startPos[2]
    IN  dx * dx + dy * dy <= 20 * 20

\* the cursor updateWidget read, in the menu's coordinates
CursorInMenu == <<livePos[1] - (startPos[1] - 500), livePos[2] - (startPos[2] - 1000)>>

\* the cursor updateWidget read, in the column's coordinates
CursorInColumn ==
    <<CursorInMenu[1] - column_widget_rect[1], CursorInMenu[2] - column_widget_rect[2]>>

InRect(rect, pt) ==
    /\ rect[1] <= pt[1] /\ pt[1] < rect[1] + rect[3]
    /\ rect[2] <= pt[2] /\ pt[2] < rect[2] + rect[4]

\* the column items whose rectangle holds the cursor, the cursor being in
\* the column's rectangle
ColumnHits ==
    IF column_widget_rect = None \/ ~InRect(column_widget_rect, CursorInMenu)
    THEN {}
    ELSE {i \in 1..Len(column_rects) : InRect(column_rects[i], CursorInColumn)}

\* the radial items whose rectangle holds the cursor
RectHits ==
    {i \in 1..Len(items) :
        /\ IsRadial(items[i]) /\ items[i].p_rect # None
        /\ InRect(items[i].p_rect, CursorInMenu)}

MinOf(S) == CHOOSE m \in S : \A n \in S : m <= n

\* C2: after updateWidget, in gesture and in settled mode and whatever items
\* are registered, no item is active when the cursor is at most 20 px from
\* the session origin.
C2_DeadZoneSelectsNothing ==
    (Updated /\ Within20) => activeItem = 0 /\ raised = ""

\* C2 witness: settled mode, a radial and a column item registered, the
\* cursor on the rim of the dead zone at a non-zero angle
C2_Witness ==
    /\ Updated /\ ~gesture /\ Within20 /\ livePos # startPos
    /\ Len(items) = 2 /\ column_rects # <<>> /\ items[1].slices # None
    /\ activeItem = 0

\* C3: outside the dead zone and with no column match, when some radial
\* item's rectangle holds the cursor the active item is the first-registered
\* such item, whoever owns the cursor's slice.
C3_RectBeatsSlice ==
    (Updated /\ ~Within20 /\ (gesture \/ ColumnHits = {}) /\ RectHits # {}) =>
        activeItem = MinOf(RectHits)

\* C3 witness: the item registered first owns the cursor's slice, the item
\* registered second holds the cursor in its rectangle and is active
C3_Witness ==
    /\ Updated /\ ~Within20 /\ Len(items) = 2
    /\ RectHits = {2} /\ activeItem = 2
    /\ InList(rad_slice(startPos, livePos), items[1].slices)

\* C8: after an updateWidget made in gesture mode the active item is none or
\* a radial item, never a column item.
C8_GestureIgnoresColumn ==
    (lastCall = "mouseMoveEvent" /\ gesture) =>
        activeItem = 0 \/ items[activeItem].position \in Positions

\* C8 witness: gesture mode, the cursor inside a column item's rectangle,
\* and the radial item that owns the slice is active
C8_Witness ==
    /\ lastCall = "mouseMoveEvent" /\ gesture /\ ~Within20
    /\ ColumnHits # {}
    /\ activeItem # 0 /\ items[activeItem].position \in Positions

\* C4: a release that ran an item's function, the function raising or not,
\* lets nothing escape and leaves the menu closed: hidden, no item active,
\* the timer stopped and the column disabled.
C4_RaisingActionStillCloses ==
    (lastCall = "mouseReleaseEvent" /\ called # <<>>) =>
        /\ raised = ""
        /\ activeItem = 0 /\ ~timerActive /\ ~column_enabled /\ ~visible

\* C4 witness: the function that ran is one that raises
C4_Witness ==
    /\ lastCall = "mouseReleaseEvent" /\ Len(called) = 1
    /\ items[called[1]].function = "raises"
    /\ raised = "" /\ activeItem = 0 /\ ~timerActive /\ ~column_enabled

\* C5: a release runs the function of the item active when it began, once,
\* and no other; with no active item, or one without a function, it runs none.
C5_OneActionPerRelease ==
    [][lastCall' = "mouseReleaseEvent" =>
          called' = IF activeItem # 0 /\ items[activeItem].function # NoFunction
                    THEN <<activeItem>> ELSE <<>>]_vars

\* C5 witness: two items with functions are registered and the release ran
\* the function of one of them only
C5_Witness ==
    /\ lastCall = "mouseReleaseEvent" /\ Len(called) = 1
    /\ Len(items) = 2
    /\ \A i \in 1..2 : items[i].function # NoFunction

-----------------------------------------------------------------------------
(* The tracking specification: one item, a cursor that rests or moves *)

\* the cursor positions the ticks read: the origin, a point 100 px from it,
\* and the screen's corner (0, 0), the null point
TrackPoints == {Origin, At(100, 0), <<0, 0>>}

\* the number of maximal runs of equal values in s
Runs(s) ==
    IF Len(s) <= 1 THEN Len(s)
    ELSE 1 + Cardinality({i \in 1..(Len(s) - 1) : s[i] # s[i + 1]})

\* the displacements recorded in a session change value at most
\* MaxRuns - 1 times, and a cursor found in the screen's corner on the first
\* tick of a session stays there
RunsAllow(pos) ==
    /\ (PointIsTrue(lastCursorPosition) /\ gesture) =>
           Runs(Append(samplesSeen, Hypot10(lastCursorPosition, pos))) <= MaxRuns
    /\ (pos = <<0, 0>>) <=> (lastCursorPosition = <<0, 0>> \/
                              (lastCursorPosition = None /\ pos = <<0, 0>>))

TrackAddItem ==
    /\ items = <<>> /\ startPos = None
    /\ add_item(RadialMenuItem("N", 10, "ok"))

TrackPopup == popup(Origin)

TrackTick ==
    \E pos \in TrackPoints : RunsAllow(pos) /\ track_cursor(pos, pos)

TrackMove ==
    UserMayAct /\ \E live \in {Origin, At(100, 0)} : mouseMoveEvent(live)

TrackRelease == UserMayAct /\ mouseReleaseEvent

NextTrack == TrackAddItem \/ TrackPopup \/ TrackTick \/ TrackMove \/ TrackRelease

SpecTrack == Init /\ [][NextTrack]_vars

-----------------------------------------------------------------------------
(* Claims about track_cursor and timer_start *)

TickCalls == {"track_cursor", "track_cursor:updateWidget"}

\* the last n entries of s (all of s when it has fewer)
LastN(s, n) ==
    IF Len(s) <= n THEN s ELSE SubSeq(s, Len(s) - n + 1, Len(s))

AllEqual(s, v) == \A i \in 1..Len(s) : s[i] = v

\* C6: a tick in gesture mode ends gesture mode if and only if it recorded a
\* displacement and the buffer then holds 40 values whose mean is below
\* 0.02 px (values in tenths of a pixel: 100 * sum < 2 * 10 * 40). So the
\* mode is settled once the last 40 displacements of the session are zero,
\* it is gesture while fewer than 40 were recorded, and it is gesture while
\* every displacement recorded was 100 px.
C6_SettleRule ==
    /\ [][(lastCall' \in TickCalls /\ gesture) =>
            (~gesture' <=>
                /\ samplesSeen' # samplesSeen
                /\ Len(cursorChange') = 40
                /\ 100 * SumSeq(cursorChange') < 2 * 10 * 40)]_vars
    /\ [](Len(samplesSeen) >= 40 /\ AllEqual(LastN(samplesSeen, 40), 0) => ~gesture)
    /\ [](Len(samplesSeen) < 40 => gesture)
    /\ [](AllEqual(samplesSeen, 1000) => gesture)

\* C6 witness: the tick that ended gesture mode came after more than 40
\* displacements, the first of them non-zero: the window had to slide
C6_Witness ==
    /\ lastCall = "track_cursor:updateWidget" /\ ~gesture
    /\ Len(samplesSeen) > 40 /\ samplesSeen[1] = 1000

\* C6 second witness: 42 displacements of 100 px and still gesture mode
C6_MovingWitness ==
    /\ Len(samplesSeen) = 42 /\ AllEqual(samplesSeen, 1000) /\ gesture

\* C7: a settled menu stays settled through every step that is not a popup,
\* and popup sets gesture mode again with empty buffers and no last
\* position or time, so the buffer never holds more values than were
\* recorded since the last popup.
C7_SettledUntilPopup ==
    /\ [][(~gesture /\ lastCall' # "popup") => ~gesture']_vars
    /\ [](lastCall = "popup" =>
            /\ gesture /\ timerActive
            /\ cursorChange = <<>> /\ timeChange = <<>>
            /\ lastCursorPosition = None /\ lastTime = None)
    /\ [](Len(cursorChange) <= Len(samplesSeen))

\* C7 witness: settled mode has lasted through a mouse release that ran the
\* active item's function
C7_Witness ==
    /\ ~gesture /\ lastCall = "mouseReleaseEvent"
    /\ Len(cursorChange) = 40 /\ called # <<>>

-----------------------------------------------------------------------------
(* The compass specification: items at N, S, E and W, then a session *)

CompassPositions == {"N", "S", "E", "W"}

\* the cursor positions read in the compass session, as offsets from
\* Origin: inside the dead zone, three points near 200 degrees (cosine and
\* sine both negative: left of and above the origin on the screen), a point
\* at exactly 180 degrees, a point inside the W item's rectangle, and points
\* in the slices of N and of S
CompassPoints ==
    {At(-15, -5), At(-94, -34), At(-47, -17), At(-940, -342), At(-100, 0),
     At(-130, -5), At(30, -200), At(10, 300)}

CompassAdd ==
    \E p \in CompassPositions \ PositionsOf(items) :
        add_item(RadialMenuItem(p, 10, NoFunction))

CompassPopup == popup(Origin)

CompassMove == \E live \in CompassPoints : mouseMoveEvent(live)

NextCompass == CompassAdd \/ CompassPopup \/ CompassMove

SpecCompass == Init /\ [][NextCompass]_vars

\* the four compass items are registered, and no other
CompassFull ==
    Len(items) = 4 /\ PositionsOf(items) = CompassPositions

\* the cursor updateWidget read lies at an angle in [180, 202.5) degrees from
\* the session origin, the wedge of slice 8: left of the origin, not below
\* it, and |dy| < tan(22.5) * |dx|, that is (|dx| + |dy|)^2 < 2 * dx^2
CursorInSlice8 ==
    LET dx == livePos[1] - startPos[1]
        dy == livePos[2] - startPos[2]
    IN  dx < 0 /\ dy <= 0 /\ (dy - dx) * (dy - dx) < 2 * dx * dx

\* C11: with radial items at exactly N, S, E and W, in any order, each item
\* owns exactly 4 slices, and updateWidget for a cursor in slice 8 (angle in
\* [180, 202.5) degrees, 200 degrees among them), outside the dead zone and
\* outside every item's rectangle, makes the W item active.
C11_CompassSlice8IsW ==
    CompassFull =>
        /\ \A i \in 1..4 :
               Len(items[i].slices) = 4 /\ Cardinality(SliceSet(items[i])) = 4
        /\ (Updated /\ ~Within20 /\ RectHits = {} /\ CursorInSlice8) =>
              (activeItem # 0 /\ items[activeItem].position = "W")

\* C11 witness: W registered last, the cursor at 199.99 degrees, 1000 px out
C11_Witness ==
    /\ CompassFull /\ items[4].position = "W"
    /\ Updated /\ livePos = At(-940, -342) /\ RectHits = {}
    /\ CursorInSlice8
    /\ activeItem = 4

-----------------------------------------------------------------------------
(* Registration of radial items whose positions may repeat *)

AddRepeatRadial ==
    /\ Len(items) < MaxAdds
    /\ \E p \in Positions : add_item(RadialMenuItem(p, 10, NoFunction))

NextRepeat == AddRepeatRadial

SpecRepeat == Init /\ [][NextRepeat]_vars

\* the radial items registered
RadialItems == {i \in 1..Len(items) : IsRadial(items[i])}

\* the slices owned by some radial item (an item never given slices owns none)
OwnedSlices == UNION {SliceSet(items[i]) : i \in RadialItems}

\* C12 as claimed: after any sequence of add_item calls that registered a
\* radial item, positions repeated or not, every slice 0..15 is owned by
\* some radial item.
C12_UnionIsFull ==
    (lastCall = "add_item" /\ RadialItems # {}) => OwnedSlices = AllSlices

\* C20: update_slice_membership returns for every sequence of radial
\* registrations, repeated positions included: add_item never hangs in a
\* pass that records nothing, nothing is raised, and on return at least 16
\* slice entries are recorded over the items.
C20_RedistributionTerminates ==
    lastCall = "add_item" =>
        /\ ~hung /\ raised = ""
        /\ SumSeq([i \in 1..Len(items) |-> Len(items[i].slices)]) >= SliceCount

\* C20 witness: a position registered three times among four items, the
\* while loop having run (some item grew beyond its default pair)
C20_Witness ==
    /\ lastCall = "add_item" /\ ~hung /\ Len(items) = 4
    /\ \E i, j, k \in 1..4 :
           /\ i < j /\ j < k
           /\ items[i].position = items[j].position
           /\ items[j].position = items[k].position
    /\ \E i \in 1..4 : Len(items[i].slices) > 2

-----------------------------------------------------------------------------
(* Registration of column items and of radial items at distinct positions *)

AddMixedRadial ==
    /\ Len(items) < MaxAdds
    /\ \E p \in Positions \ PositionsOf(items) :
           add_item(RadialMenuItem(p, 10, NoFunction))

AddMixedColumn ==
    /\ Len(items) < MaxAdds
    /\ add_item(RadialMenuItem(NoPos, 10, NoFunction))

NextMixed == AddMixedRadial \/ AddMixedColumn

SpecMixed == Init /\ [][NextMixed]_vars

\* the radial items that list slice s
RadialOwners(s) == {i \in RadialItems : InList(s, items[i].slices)}

\* C13 as claimed: for every order in which column items and radial items
\* at distinct positions are registered, each add_item returns without
\* error, and once a radial item is registered every slice 0..15 belongs to
\* exactly one radial item.
C13_MixedOrderPartition ==
    lastCall = "add_item" =>
        /\ raised = "" /\ ~hung
        /\ RadialItems # {} =>
               \A s \in AllSlices : Cardinality(RadialOwners(s)) = 1

-----------------------------------------------------------------------------
(* Claims about closing the popup and about the column *)

\* C14 as claimed: whenever the popup is not shown, the polling timer is not
\* running.
C14_ClosedMeansTimerStopped == ~visible => ~timerActive

\* C15: after an updateWidget made in settled mode with a column defined,
\* for a cursor outside the dead zone, inside the column's rectangle and
\* inside some column item's rectangle, the active item is the first such
\* column item in stacking order (whatever radial rectangle or slice the
\* cursor is in), and nothing was raised.
C15_ColumnItemFirstMatch ==
    (Updated /\ ~gesture /\ ~Within20 /\ ColumnHits # {}) =>
        /\ activeItem = column_items[MinOf(ColumnHits)]
        /\ raised = ""

\* C15 witness: the cursor is in the first column item's rectangle, in a
\* slice that a radial item owns, and the column item is active
C15_Witness ==
    /\ Updated /\ ~gesture /\ ~Within20 /\ ColumnHits = {1}
    /\ \E i \in 1..Len(items) :
           /\ IsRadial(items[i])
           /\ InList(rad_slice(startPos, livePos), items[i].slices)
    /\ activeItem = column_items[1]

\* C15 second witness: the cursor is on the row that the first and second
\* column items' rectangles share, and the first is active
C15_OverlapWitness ==
    /\ Updated /\ ~gesture /\ ~Within20 /\ ColumnHits = {1, 2}
    /\ activeItem = column_items[1]

-----------------------------------------------------------------------------
(* Claims about the shape of the redistribution *)

\* the first and the second slice of item i's default pair
DefaultLow(i) == slices(items[i].position)[1]
DefaultHigh(i) == slices(items[i].position)[2]

\* the number of slices lying after item i's default pair and before item
\* j's, going round in the direction of pie_next (14 for the item itself)
GapAbove(i, j) ==
    IF i = j THEN SliceCount - 2
    ELSE (DefaultLow(j) + SliceCount - DefaultHigh(i) - 1) % SliceCount

\* the item whose default pair comes next after item i's in that direction
NextAbove(i) ==
    CHOOSE j \in 1..Len(items) :
        \A k \in 1..Len(items) : GapAbove(i, j) <= GapAbove(i, k)

\* C16 as claimed: for every set of distinct active positions, the slices
\* between the default pairs of two circularly adjacent items are shared
\* equally: the half next to the lower item belongs to it, the half next to
\* the upper item belongs to that one.
C16_GapsSharedEqually ==
    (lastCall = "add_item" /\ DistinctRadial) =>
        \A i \in 1..Len(items) :
            LET j == NextAbove(i)
                g == GapAbove(i, j)
            IN  \A m \in 1..g :
                    LET s == (DefaultHigh(i) + m) % SliceCount
                    IN  IF 2 * m <= g
                        THEN InList(s, items[i].slices)
                        ELSE InList(s, items[j].slices)

-----------------------------------------------------------------------------
(* Claims about what a polling tick does to the selection *)

\* pos in the menu's coordinates and in the column's coordinates
InMenu(pos) == <<pos[1] - (startPos[1] - 500), pos[2] - (startPos[2] - 1000)>>
InColumn(pos) ==
    <<InMenu(pos)[1] - column_widget_rect[1], InMenu(pos)[2] - column_widget_rect[2]>>

ColumnHitsAt(pos) ==
    IF column_widget_rect = None \/ ~InRect(column_widget_rect, InMenu(pos))
    THEN {}
    ELSE {i \in 1..Len(column_rects) : InRect(column_rects[i], InColumn(pos))}

RectHitsAt(pos) ==
    {i \in RadialItems :
        items[i].p_rect # None /\ InRect(items[i].p_rect, InMenu(pos))}

SliceOwnersAt(pos) ==
    {i \in RadialItems : InList(rad_slice(startPos, pos), items[i].slices)}

MaxOf(S) == CHOOSE m \in S : \A n \in S : n <= m

\* the resolution rules for a cursor at pos in gesture mode g: nothing
\* within 20 px of the origin; in settled mode the first column item whose
\* rectangle holds the cursor; else the first radial item whose rectangle
\* holds it; else the last-registered radial item that owns its slice
ResolveAt(pos, g) ==
    LET dx == pos[1] - startPos[1]
        dy == pos[2] - startPos[2]
    IN  IF dx * dx + dy * dy <= 20 * 20 THEN 0
        ELSE IF ~g /\ ColumnHitsAt(pos) # {}
             THEN column_items[MinOf(ColumnHitsAt(pos))]
        ELSE IF RectHitsAt(pos) # {} THEN MinOf(RectHitsAt(pos))
        ELSE IF SliceOwnersAt(pos) # {} THEN MaxOf(SliceOwnersAt(pos))
        ELSE 0

C17_SettleWitness ==
    /\ lastCall = "track_cursor:updateWidget" /\ visible /\ ~gesture
    /\ activeItem # 0 /\ ~IsRadial(items[activeItem])

-----------------------------------------------------------------------------
(* Claims about the order of mouseReleaseEvent's steps *)

\* C18 as claimed: when mouseReleaseEvent invokes the active item's
\* function, the polling timer is already inactive.
C18_TimerStoppedBeforeAction ==
    (lastCall = "mouseReleaseEvent" /\ called # <<>>) => ~calledWhileTimer

-----------------------------------------------------------------------------
(* Claims about the sample buffers *)

\* C19: cursorChange and timeChange never hold more than 40 entries and
\* always have the same length; after k displacements recorded in a session
\* cursorChange holds the most recent min(k, 40) of them in arrival order,
\* and timeChange holds as many time differences, each one timer interval.
C19_BuffersHoldLast40 ==
    /\ Len(cursorChange) <= 40
    /\ Len(timeChange) = Len(cursorChange)
    /\ cursorChange = LastN(samplesSeen, 40)
    /\ \A i \in 1..Len(timeChange) : timeChange[i] = TimerInterval

\* C19 witness: 41 displacements recorded, the first two of 100 px and the
\* rest zero: the window has dropped the oldest and kept the others in order
C19_Witness ==
    /\ Len(samplesSeen) = 41
    /\ samplesSeen[1] = 1000 /\ samplesSeen[2] = 1000 /\ samplesSeen[3] = 0
    /\ Len(cursorChange) = 40
    /\ cursorChange[1] = 1000 /\ cursorChange[2] = 0 /\ cursorChange[40] = 0

-----------------------------------------------------------------------------
(* Claims about sessions that follow one another *)

\* C21 as claimed, in the case where nothing at all happens between popup
\* and the release (no mouse move, no tick: the cursor is still where popup
\* found it, inside the dead zone): the release invokes no action, whatever
\* happened in earlier sessions.
C21_ReleaseRightAfterPopupRunsNothing ==
    [][(lastCall = "popup" /\ lastCall' = "mouseReleaseEvent") =>
          called' = <<>>]_vars

-----------------------------------------------------------------------------
(* Claims about the highlight *)

\* the items registered in the specification below: two radial items with a
\* function and one column item, each registered at most once, in any order
HighlightItems ==
    {RadialMenuItem("N", 10, "ok"), RadialMenuItem(NoPos, 10, NoFunction),
     RadialMenuItem("NE", 10, "ok")}

HighlightAdd ==
    \E item \in HighlightItems :
        /\ ~InList(item.position, [i \in 1..Len(items) |-> items[i].position])
        /\ add_item(item)

HighlightPopup == popup(Origin)

\* the cursor at the origin, in the slices of N and of NE, and in the column
HighlightMove ==
    \E live \in {At(0, 0), At(0, -120), At(150, -105), At(0, 180)} :
        mouseMoveEvent(live)

HighlightRelease == mouseReleaseEvent

NextHighlight ==
    HighlightAdd \/ HighlightPopup \/ HighlightMove \/ HighlightRelease

SpecHighlight == Init /\ [][NextHighlight]_vars

\* the items whose last notification was enter
Hovered == {i \in 1..Len(items) : items[i].hover}

\* C22 as claimed: after every updateWidget call and after every
\* mouseReleaseEvent the highlighted items are the active item when there is
\* one and none otherwise, and at no time are two items highlighted.
C22_HighlightIsActiveItem ==
    /\ (Updated \/ lastCall = "mouseReleaseEvent") =>
           Hovered = (IF activeItem # 0 THEN {activeItem} ELSE {})
    /\ Cardinality(Hovered) <= 1

-----------------------------------------------------------------------------
(* Claims about the column's layout *)

\* C23 as claimed: in settled mode, with any column items registered, a
\* cursor inside the column's bounding rectangle and more than 20 px from the
\* origin resolves to a column item, never to a radial item and never to
\* none.
C23_ColumnRectIsCovered ==
    ( /\ Updated /\ ~gesture /\ ~Within20
      /\ column_widget_rect # None
      /\ InRect(column_widget_rect, CursorInMenu) )
        => InList(activeItem, column_items)

=============================================================================
